---------------------------- MODULE Spec2Model ----------------------------
(***************************************************************************)
(* Model of the board page of tic-tac-toe-gpt (GameBoard, the component    *)
(* of src/unnamed/part_004), of the oracle client (getAIMove, part_006)    *)
(* of the oracle endpoint (api/ai/move) and of the stats sink              *)
(* (api/game/stats, part_003).                                             *)
(*                                                                         *)
(* The page is a React component: its state lives in useState cells, its   *)
(* handlers run to their first await in one event-loop task, and every     *)
(* continuation behind an await runs later in a task of its own, with the  *)
(* local variables (newBoard) the handler held when it suspended.  One     *)
(* action of the model is one such task.  A click always runs the          *)
(* handleMove of the latest render, so its guard reads the current state.  *)
(***************************************************************************)
EXTENDS Integers, Sequences, FiniteSets

VARIABLES
    size,               \* the 'size' URL parameter (part_004:43)
    loggedIn,           \* user?.id is truthy (part_004:40, 189)
    board,              \* useState board (part_004:47), indices from 0
    currentPlayer,      \* useState currentPlayer (part_004:48)
    gameStatus,         \* useState gameStatus (part_004:49)
    isAiThinking,       \* useState isAiThinking (part_004:51)
    winningCombination, \* useState winningCombination (part_004:52)
    calls,              \* the handleMove invocations suspended at an await
    game,               \* history: number of resetGame calls so far
    failures,           \* history: number of failed oracle requests so far
    moves,              \* history: number of local moves handleMove accepted so far
    placed,             \* history: number of marks put on the board since the last reset
    reported,           \* history: results POSTed to /api/game/stats since the last reset
    lastOp,             \* history: the handler or continuation that ran last
    mark,               \* detector harness: the player of the last checkWinner call
    winner,             \* detector harness: what that call returned
    edits,              \* harnesses: number of cells rewritten or oracle answers so far
    moveText,           \* oracle endpoint: the text the oracle answered (route.ts:144)
    routeResponse,      \* oracle endpoint: the response of POST /api/ai/move
    users,              \* stats sink: the aggregate stats of each account (part_007:45-58)
    records,            \* stats sink: the stored game records (GameStats.ts:22-50)
    statsRequest,       \* stats sink: the body of the last POST /api/game/stats
    statsResponse       \* stats sink: the response to it

vars == <<size, loggedIn, board, currentPlayer, gameStatus, isAiThinking,
          winningCombination, calls, game, failures, moves, placed, reported, lastOp, mark,
          winner, edits, moveText, routeResponse, users, records, statsRequest,
          statsResponse>>

pageVars == <<board, currentPlayer, gameStatus, isAiThinking, winningCombination>>

routeVars == <<moveText, routeResponse>>

sinkVars == <<users, records, statsRequest, statsResponse>>

detVars == <<mark, winner, edits, routeVars, sinkVars>>

(***************************************************************************)
(* Bounds of the model.                                                    *)
(***************************************************************************)
MaxResets == 1
MaxFailures == 1
MaxMoves == 2
MaxEdits == 1
MaxBeyond == 1
MaxText == 2
MaxRecords == 2
MaxOpening == 3
MaxRecent == 6

Sizes == {3, 4, 5}
GameSizes == {3}

null == "null"
undefined == "undefined"
CellValue == {"X", "O", null}
NoLine == <<>>

Cells(n) == 0 .. (n * n - 1)
Length(b) == Cardinality(DOMAIN b)
EmptyBoard(n) == [i \in Cells(n) |-> null]

(***************************************************************************)
(* checkWinner: rows top to bottom, columns left to right, the main        *)
(* diagonal, the anti-diagonal; the first complete line is returned as the *)
(* sequence of its indices, NoLine stands for the null it returns          *)
(* otherwise.                                                              *)
(***************************************************************************)
RowLine(n, row) == [i \in 1 .. n |-> row * n + (i - 1)]
ColLine(n, col) == [i \in 1 .. n |-> (i - 1) * n + col]
DiagLine(n) == [i \in 1 .. n |-> (i - 1) * n + (i - 1)]
\* The anti-diagonal with the column taken as size - i: one cell to the right.
AntiDiagLineOffByOne(n) == [i \in 1 .. n |-> (i - 1) * n + (n - (i - 1))]

AntiDiagLine(n) == [i \in 1 .. n |-> (i - 1) * n + (n - 1 - (i - 1))]

Match(currentBoard, player, line) ==
    \A k \in DOMAIN line : currentBoard[line[k]] = player

\* A detector that looks at the columns before the rows.
checkWinnerColumnsFirst(n, currentBoard, player) ==
    LET rows == {row \in 0 .. (n - 1) : Match(currentBoard, player, RowLine(n, row))}
        cols == {col \in 0 .. (n - 1) : Match(currentBoard, player, ColLine(n, col))}
        Min(S) == CHOOSE x \in S : \A y \in S : x <= y
    IN  IF cols # {} THEN ColLine(n, Min(cols))
        ELSE IF rows # {} THEN RowLine(n, Min(rows))
        ELSE IF Match(currentBoard, player, DiagLine(n)) THEN DiagLine(n)
        ELSE IF Match(currentBoard, player, AntiDiagLine(n)) THEN AntiDiagLine(n)
        ELSE NoLine

checkWinnerOf(n, currentBoard, player) ==
    LET rows == {row \in 0 .. (n - 1) : Match(currentBoard, player, RowLine(n, row))}
        cols == {col \in 0 .. (n - 1) : Match(currentBoard, player, ColLine(n, col))}
        Min(S) == CHOOSE x \in S : \A y \in S : x <= y
    IN  IF rows # {} THEN RowLine(n, Min(rows))
        ELSE IF cols # {} THEN ColLine(n, Min(cols))
        ELSE IF Match(currentBoard, player, DiagLine(n)) THEN DiagLine(n)
        ELSE IF Match(currentBoard, player, AntiDiagLine(n)) THEN AntiDiagLine(n)
        ELSE NoLine

checkWinner(currentBoard, player) == checkWinnerOf(size, currentBoard, player)

\* newBoard.every(cell => cell !== null)
isFull(b) == \A i \in DOMAIN b : b[i] # null

\* newBoard = [...board]; newBoard[index] = v.  An index past the end grows the
\* array; the cells in between are holes, read as undefined.
Place(b, index, v) ==
    [j \in 0 .. (IF index < Length(b) THEN Length(b) - 1 ELSE index) |->
        IF j = index THEN v ELSE IF j < Length(b) THEN b[j] ELSE undefined]

\* board[index] is truthy
Occupied(b, index) == index \in DOMAIN b /\ b[index] \in {"X", "O"}


(***************************************************************************)
(* The suspended handleMove invocations.  pc is the await the invocation   *)
(* stands at: "getAIMove" (part_004:145) or "stats" (the fetch of          *)
(* handleGameEnd, part_004:193).  newBoard is the local the continuation   *)
(* behind getAIMove reads; inTry tells whether the invocation is inside    *)
(* the try block, so that its finally clause still has to run; game is the *)
(* game instance that issued it (history).                                 *)
(***************************************************************************)
(***************************************************************************)
(* Texts are sequences of one-character strings.  parseInt as JavaScript   *)
(* computes it on such a text: leading white space is skipped, an optional *)
(* '-' is read, then the longest run of decimal digits; whatever follows   *)
(* is ignored, and with no digit at all the result is NaN.                 *)
(***************************************************************************)
WhiteSpace == {" "}

DigitValue(c) ==
    CASE c = "0" -> 0 [] c = "1" -> 1 [] c = "2" -> 2 [] c = "3" -> 3
      [] c = "4" -> 4 [] c = "5" -> 5 [] c = "6" -> 6 [] c = "7" -> 7
      [] c = "8" -> 8 [] c = "9" -> 9

DecimalDigits == {"0", "1", "2", "3", "4", "5", "6", "7", "8", "9"}

NaN == [isNaN |-> TRUE, value |-> 0]

Number(n) == [isNaN |-> FALSE, value |-> n]

RECURSIVE TrimStart(_)
TrimStart(t) ==
    IF t # <<>> /\ Head(t) \in WhiteSpace THEN TrimStart(Tail(t)) ELSE t

RECURSIVE TrimEnd(_)
TrimEnd(t) ==
    IF t # <<>> /\ t[Len(t)] \in WhiteSpace
    THEN TrimEnd(SubSeq(t, 1, Len(t) - 1))
    ELSE t

trim(t) == TrimEnd(TrimStart(t))

RECURSIVE LeadingDigits(_)
LeadingDigits(t) ==
    IF t # <<>> /\ Head(t) \in DecimalDigits
    THEN <<Head(t)>> \o LeadingDigits(Tail(t))
    ELSE <<>>

RECURSIVE DecimalValue(_)
DecimalValue(ds) ==
    IF ds = <<>> THEN 0
    ELSE 10 * DecimalValue(SubSeq(ds, 1, Len(ds) - 1)) + DigitValue(ds[Len(ds)])

\* A parseInt that reads nothing but a whole decimal numeral.
parseIntWholeText(t) ==
    IF t # <<>> /\ \A n \in DOMAIN t : t[n] \in DecimalDigits
    THEN Number(DecimalValue(t))
    ELSE NaN

parseInt(t) ==
    LET s == TrimStart(t)
        negative == s # <<>> /\ Head(s) = "-"
        digits == LeadingDigits(IF negative THEN Tail(s) ELSE s)
    IN  IF digits = <<>> THEN NaN
        ELSE Number(IF negative THEN 0 - DecimalValue(digits) ELSE DecimalValue(digits))

\* The texts of at most n characters of an alphabet.
Texts(alphabet, n) == UNION {[1 .. k -> alphabet] : k \in 0 .. n}

NoBoard == [i \in {} |-> null]

\* No HTTP response yet, and a response without a `move` or `stats` field.
NoResponse == [status |-> 0]

NoRequest == [userId |-> "", result |-> "", duration |-> 0, boardSize |-> 0,
              difficulty |-> ""]

\* The ids the stats sink is asked about: one account, one well-formed id of
\* no account, one string that is no ObjectId.
Accounts == {"u1"}

ObjectIds == {"u1", "u2"}

UserIds == ObjectIds \cup {"guest"}

\* previousMoves as the request builds it (part_004:149-152): the cells of
\* the state `board`, the one the handler was called with, that are not null,
\* by increasing position.
previousMoves(b) ==
    LET upTo[n \in 0 .. Length(b)] ==
            IF n = 0 THEN <<>>
            ELSE IF b[n - 1] # null
                 THEN Append(upTo[n - 1], [position |-> n - 1, player |-> b[n - 1]])
                 ELSE upTo[n - 1]
    IN  upTo[Length(b)]

OracleCall(newBoard) ==
    [pc |-> "getAIMove", newBoard |-> newBoard, inTry |-> TRUE, game |-> game,
     previousMoves |-> previousMoves(board)]

StatsCall(inTry, g) ==
    [pc |-> "stats", newBoard |-> NoBoard, inTry |-> inTry, game |-> g,
     previousMoves |-> <<>>]

Remove(s, k) == [j \in 1 .. (Len(s) - 1) |-> IF j < k THEN s[j] ELSE s[j + 1]]

Pending(pc) == {k \in DOMAIN calls : calls[k].pc = pc}

Op(op, index, from) == [op |-> op, index |-> index, from |-> from]

\* The guard without its third test: a call is let through while the oracle thinks.
RejectedIgnoringPending(index) ==
    Occupied(board, index) \/ gameStatus # "playing"

\* if (board[index] || gameStatus !== 'playing' || isAiThinking) return;
Rejected(index) ==
    Occupied(board, index) \/ gameStatus # "playing" \/ isAiThinking

\* The two tests of handleMove in the other order: the full board first.
LocalOutcomeDrawFirst(newBoard) ==
    IF isFull(newBoard) THEN "draw"
    ELSE IF checkWinner(newBoard, "X") # NoLine THEN "won"
    ELSE "playing"

\* What handleMove does with the board it has just marked: the win is looked
\* for first, the full board second, and the oracle is asked otherwise.
LocalOutcome(newBoard) ==
    IF checkWinner(newBoard, "X") # NoLine THEN "won"
    ELSE IF isFull(newBoard) THEN "draw"
    ELSE "playing"

\* The two tests behind the oracle's mark in the other order.
OracleOutcomeDrawFirst(finalBoard) ==
    IF isFull(finalBoard) THEN "draw"
    ELSE IF checkWinner(finalBoard, "O") # NoLine THEN "lost"
    ELSE "playing"

\* The same for the board the oracle's mark has been put on.
OracleOutcome(finalBoard) ==
    IF checkWinner(finalBoard, "O") # NoLine THEN "lost"
    ELSE IF isFull(finalBoard) THEN "draw"
    ELSE "playing"

\* handleGameEnd(result) up to its await: the status is set, and for a
\* logged-in user the result is POSTed to /api/game/stats.
handleGameEnd(result) ==
    /\ gameStatus' = result
    /\ reported' = IF result # "playing" /\ loggedIn
                   THEN Append(reported, result) ELSE reported

\* handleGameEnd suspends at its fetch only when it sends one.
Suspends(result) == result # "playing" /\ loggedIn

(***************************************************************************)
(* handleMove(index), from the call to its first await or its return.      *)
(***************************************************************************)
handleMove(index) ==
    /\ lastOp' = Op("handleMove", index, game)
    /\ UNCHANGED <<size, loggedIn, game, failures, detVars>>
    /\ moves' = IF Rejected(index) THEN moves ELSE moves + 1
    /\ placed' = IF Rejected(index) THEN placed ELSE placed + 1
    /\ IF Rejected(index)
       THEN UNCHANGED <<pageVars, calls, reported>>
       ELSE LET newBoard == Place(board, index, "X")
                outcome == LocalOutcome(newBoard)
            IN  /\ board' = newBoard
                /\ IF outcome = "won"
                   THEN /\ winningCombination' = checkWinner(newBoard, "X")
                        /\ handleGameEnd("won")
                        /\ calls' = IF Suspends("won")
                                    THEN Append(calls, StatsCall(FALSE, game))
                                    ELSE calls
                        /\ UNCHANGED <<currentPlayer, isAiThinking>>
                   ELSE IF outcome = "draw"
                   THEN /\ handleGameEnd("draw")
                        /\ calls' = IF Suspends("draw")
                                    THEN Append(calls, StatsCall(FALSE, game))
                                    ELSE calls
                        /\ UNCHANGED <<currentPlayer, isAiThinking, winningCombination>>
                   ELSE /\ isAiThinking' = TRUE
                        /\ currentPlayer' = "O"
                        /\ calls' = Append(calls, OracleCall(newBoard))
                        /\ UNCHANGED <<gameStatus, winningCombination, reported>>

\* The moves POST /api/ai/move answers with for the board of the request
\* (route.ts:148): in range and on a cell that is null in the JSON it got
\* (JSON.stringify writes undefined as null).
ValidMoves(sent) == {m \in DOMAIN sent : sent[m] \in {null, undefined}}

(***************************************************************************)
(* The continuation of handleMove behind a getAIMove that resolved with    *)
(* move aiMoveIndex (part_004:155-173, 176-178).                           *)
(***************************************************************************)
AIMoveResolved(k, aiMoveIndex) ==
    LET call == calls[k]
        finalBoard == Place(call.newBoard, aiMoveIndex, "O")
        outcome == OracleOutcome(finalBoard)
    IN  /\ lastOp' = Op("aiMove", aiMoveIndex, call.game)
        /\ UNCHANGED <<size, loggedIn, game, failures, moves, detVars>>
        /\ placed' = placed + 1
        /\ board' = finalBoard
        /\ IF outcome = "playing"
           THEN /\ currentPlayer' = "X"
                /\ isAiThinking' = FALSE
                /\ calls' = Remove(calls, k)
                /\ UNCHANGED <<gameStatus, winningCombination, reported>>
           ELSE /\ winningCombination' =
                      IF outcome = "lost" THEN checkWinner(finalBoard, "O")
                      ELSE winningCombination
                /\ handleGameEnd(outcome)
                /\ UNCHANGED currentPlayer
                /\ IF Suspends(outcome)
                   THEN /\ calls' = [calls EXCEPT ![k] = StatsCall(TRUE, call.game)]
                        /\ UNCHANGED isAiThinking
                   ELSE /\ calls' = Remove(calls, k)
                        /\ isAiThinking' = FALSE

\* A failure path that asks the oracle again for the same board.
AIMoveFailedRetries(k) ==
    /\ lastOp' = Op("aiFailed", -1, calls[k].game)
    /\ UNCHANGED <<size, loggedIn, game, moves, placed, detVars>>
    /\ failures' = failures + 1
    /\ UNCHANGED <<pageVars, calls, reported>>

\* A failure path with the catch and no finally clause.
AIMoveFailedNoFinally(k) ==
    /\ lastOp' = Op("aiFailed", -1, calls[k].game)
    /\ UNCHANGED <<size, loggedIn, game, moves, placed, detVars>>
    /\ failures' = failures + 1
    /\ calls' = Remove(calls, k)
    /\ UNCHANGED <<pageVars, reported>>

\* getAIMove threw (fetch rejected, or the answer was not ok: 400, 500): the
\* catch logs, the finally clause clears the flag (part_004:174-178).
AIMoveFailed(k) ==
    /\ lastOp' = Op("aiFailed", -1, calls[k].game)
    /\ UNCHANGED <<size, loggedIn, game, moves, placed, detVars>>
    /\ failures' = failures + 1
    /\ isAiThinking' = FALSE
    /\ calls' = Remove(calls, k)
    /\ UNCHANGED <<board, currentPlayer, gameStatus, winningCombination, reported>>

\* A failed report that takes the result back.
StatsSettledRevertsOnFailure(k, ok) ==
    /\ lastOp' = Op(IF ok THEN "statsDone" ELSE "statsFailed", -1, calls[k].game)
    /\ UNCHANGED <<size, loggedIn, game, failures, moves, placed, detVars>>
    /\ isAiThinking' = IF calls[k].inTry THEN FALSE ELSE isAiThinking
    /\ calls' = Remove(calls, k)
    /\ gameStatus' = IF ok THEN gameStatus ELSE "playing"
    /\ UNCHANGED <<board, currentPlayer, winningCombination, reported>>

\* The fetch of handleGameEnd settled, either way (part_004:192-206); the
\* invocation returns, through its finally clause when it is inside the try.
StatsSettled(k, ok) ==
    /\ lastOp' = Op(IF ok THEN "statsDone" ELSE "statsFailed", -1, calls[k].game)
    /\ UNCHANGED <<size, loggedIn, game, failures, moves, placed, detVars>>
    /\ isAiThinking' = IF calls[k].inTry THEN FALSE ELSE isAiThinking
    /\ calls' = Remove(calls, k)
    /\ UNCHANGED <<board, currentPlayer, gameStatus, winningCombination, reported>>

\* A reset that forgets setIsAiThinking(false).
resetGameKeepsFlag ==
    /\ lastOp' = Op("resetGame", -1, game)
    /\ UNCHANGED <<size, loggedIn, failures, moves, detVars, calls>>
    /\ board' = EmptyBoard(size)
    /\ gameStatus' = "playing"
    /\ currentPlayer' = "X"
    /\ winningCombination' = NoLine
    /\ UNCHANGED isAiThinking
    /\ game' = game + 1
    /\ placed' = 0
    /\ reported' = <<>>

\* resetGame (part_004:210-217)
resetGame ==
    /\ lastOp' = Op("resetGame", -1, game)
    /\ UNCHANGED <<size, loggedIn, failures, moves, detVars, calls>>
    /\ board' = EmptyBoard(size)
    /\ gameStatus' = "playing"
    /\ currentPlayer' = "X"
    /\ winningCombination' = NoLine
    /\ isAiThinking' = FALSE
    /\ game' = game + 1
    /\ placed' = 0
    /\ reported' = <<>>

(***************************************************************************)
(* The board page.                                                         *)
(***************************************************************************)
\* const size = parseInt(searchParams.get('size') || '3') (part_004:43): an
\* absent or empty parameter reads as '3'; the number parsed is the size,
\* whatever it is.
sizeOf(param) == parseInt(IF param = <<>> THEN <<"3">> ELSE param)

\* The values of the 'size' parameter the page is opened with here: absent,
\* "1", "2" and "3" (larger boards only make longer games).
SizeParams == {<<>>, <<"1">>, <<"2">>, <<"3">>}

\* The servers before any request: no oracle answer yet, every account with
\* the schema's default stats (part_007:45-58), no game record.
ServersIdle ==
    /\ moveText = <<>>
    /\ routeResponse = NoResponse
    /\ users = [u \in Accounts |-> [gamesPlayed |-> 0, gamesWon |-> 0, timePlayed |-> 0]]
    /\ records = <<>>
    /\ statsRequest = NoRequest
    /\ statsResponse = NoResponse

Init ==
    /\ size \in GameSizes
    /\ loggedIn \in BOOLEAN
    /\ board = EmptyBoard(size)
    /\ currentPlayer = "X"
    /\ gameStatus = "playing"
    /\ isAiThinking = FALSE
    /\ winningCombination = NoLine
    /\ calls = <<>>
    /\ game = 0
    /\ failures = 0
    /\ moves = 0
    /\ placed = 0
    /\ reported = <<>>
    /\ lastOp = Op("mount", -1, 0)
    /\ mark = "X"
    /\ winner = NoLine
    /\ edits = 0
    /\ ServersIdle

\* The page as mounted from a URL.
InitUrl ==
    /\ \E param \in SizeParams : size = sizeOf(param).value
    /\ loggedIn \in BOOLEAN
    /\ board = EmptyBoard(size)
    /\ currentPlayer = "X"
    /\ gameStatus = "playing"
    /\ isAiThinking = FALSE
    /\ winningCombination = NoLine
    /\ calls = <<>>
    /\ game = 0
    /\ failures = 0
    /\ moves = 0
    /\ placed = 0
    /\ reported = <<>>
    /\ lastOp = Op("mount", -1, 0)
    /\ mark = "X"
    /\ winner = NoLine
    /\ edits = 0
    /\ ServersIdle

\* A cell's button is disabled when the cell is taken, the game is over or
\* the oracle is thinking (part_004:263-267): only enabled buttons click.
Enabled(index) ==
    board[index] = null /\ gameStatus = "playing" /\ ~isAiThinking

\* After a reset the run accepts local moves up to MaxMoves in all.
Budget == game = 0 \/ moves < MaxMoves

\* The game layout renders the page only for a user who is logged in
\* (part_005:21-24).
InitUser == Init /\ loggedIn

Click ==
    \E index \in DOMAIN board : Enabled(index) /\ Budget /\ handleMove(index)

OracleAnswers ==
    \E k \in Pending("getAIMove") :
        \E m \in ValidMoves(calls[k].newBoard) : AIMoveResolved(k, m)

OracleFails ==
    /\ failures < MaxFailures
    /\ \E k \in Pending("getAIMove") : AIMoveFailed(k)

StatsAnswers == \E k \in Pending("stats") : \E ok \in BOOLEAN : StatsSettled(k, ok)

PlayAgain == game < MaxResets /\ resetGame

Next == Click \/ OracleAnswers \/ OracleFails \/ StatsAnswers \/ PlayAgain

Spec == Init /\ [][Next]_vars

\* The board page opened with any of the size parameters.
SpecUrl == InitUrl /\ [][Next]_vars

(***************************************************************************)
(* The page against an oracle that always takes the last free cell: one    *)
(* of the oracles the page can meet, which keeps long runs over two game   *)
(* instances within reach.                                                 *)
(***************************************************************************)
LastFree(sent) == CHOOSE m \in ValidMoves(sent) : \A o \in ValidMoves(sent) : o <= m

\* Long games are played after the reset: before it, MaxOpening local moves.
Press ==
    /\ game > 0 \/ moves < MaxOpening
    /\ \E index \in DOMAIN board : Enabled(index) /\ handleMove(index)

StubAnswers ==
    \E k \in Pending("getAIMove") : AIMoveResolved(k, LastFree(calls[k].newBoard))

NextStub == Press \/ StubAnswers \/ StatsAnswers \/ PlayAgain

SpecStub == InitUser /\ [][NextStub]_vars

(***************************************************************************)
(* handleMove as a function: called with any index, in range or past the   *)
(* end, in any state of the page, whether or not the button would click.   *)
(***************************************************************************)
Indices == 0 .. (size * size - 1 + MaxBeyond)

Call ==
    \E index \in Indices :
        /\ Rejected(index) \/ (moves < size * size /\ Budget)
        /\ handleMove(index)

NextCalls == Call \/ OracleAnswers \/ OracleFails \/ StatsAnswers \/ PlayAgain

SpecCalls == InitUser /\ [][NextCalls]_vars

(***************************************************************************)
(* The detector alone: checkWinner applied to boards of every size, made   *)
(* of up to two complete lines of one mark and MaxEdits rewritten cells.   *)
(***************************************************************************)
LineCells(line) == {line[k] : k \in DOMAIN line}

LinesOf(n) ==
    {RowLine(n, r) : r \in 0 .. (n - 1)} \cup {ColLine(n, c) : c \in 0 .. (n - 1)}
        \cup {DiagLine(n), AntiDiagLine(n)}

InitWinner ==
    /\ size \in Sizes
    /\ \E l1 \in LinesOf(size) \cup {NoLine}, l2 \in LinesOf(size) \cup {NoLine},
          p \in {"X", "O"} :
          board = [i \in Cells(size) |->
                      IF i \in LineCells(l1) \cup LineCells(l2) THEN p ELSE null]
    /\ loggedIn = TRUE
    /\ currentPlayer = "X"
    /\ gameStatus = "playing"
    /\ isAiThinking = FALSE
    /\ winningCombination = NoLine
    /\ calls = <<>>
    /\ game = 0
    /\ failures = 0
    /\ moves = 0
    /\ placed = 0
    /\ reported = <<>>
    /\ lastOp = Op("mount", -1, 0)
    /\ mark = "X"
    /\ winner = NoLine
    /\ edits = 0
    /\ ServersIdle

Edit(index, v) ==
    /\ edits < MaxEdits
    /\ edits' = edits + 1
    /\ board' = [board EXCEPT ![index] = v]
    /\ lastOp' = Op("edit", -1, 0)
    /\ UNCHANGED <<size, loggedIn, currentPlayer, gameStatus, isAiThinking,
                   winningCombination, calls, game, failures, moves, placed, reported,
                   mark, winner, routeVars, sinkVars>>

Detect(player) ==
    /\ mark' = player
    /\ winner' = checkWinner(board, player)
    /\ lastOp' = Op("checkWinner", -1, 0)
    /\ UNCHANGED <<size, loggedIn, pageVars, calls, game, failures, moves, placed,
                   reported, edits, routeVars, sinkVars>>

Rewrite == \E index \in DOMAIN board : \E v \in CellValue : Edit(index, v)

Detects == \E player \in {"X", "O"} : Detect(player)

NextWinner == Rewrite \/ Detects

SpecWinner == InitWinner /\ [][NextWinner]_vars

(***************************************************************************)
(* The oracle endpoint, POST /api/ai/move (route.ts:104-163), and its      *)
(* client getAIMove (part_006:33-49), on any board and any oracle text.    *)
(***************************************************************************)
\* A board as JSON.stringify and req.json() carry it: undefined reads as null.
AsJSON(b) == [i \in DOMAIN b |-> IF b[i] = undefined THEN null ELSE b[i]]

\* What keeps the endpoint from asking the oracle or from reading its answer:
\* no OPENAI_API_KEY (route.ts:105-110), an exception of the OpenAI call
\* (route.ts:157-162); "network" is a fetch of getAIMove that rejects.
OracleFaults == {"none", "noKey", "openaiError", "network"}

\* The characters of the oracle's texts here, and the texts.
OracleChars == {"0", "1", "9", "-", ".", " "}

OracleTexts == Texts(OracleChars, MaxText)

\* An endpoint that does not test whether the cell is taken.
RoutePOSTSkipsOccupied(sent, content, fault) ==
    IF fault \in {"noKey", "openaiError"} THEN [status |-> 500]
    ELSE LET move == parseInt(trim(content))
         IN  IF \/ move.isNaN
                \/ move.value < 0
                \/ move.value >= Length(sent)
             THEN [status |-> 400]
             ELSE [status |-> 200, move |-> move.value]

\* The response for the board `sent` when the oracle's message is `content`
\* (route.ts:144-155).
RoutePOST(sent, content, fault) ==
    IF fault \in {"noKey", "openaiError"} THEN [status |-> 500]
    ELSE LET move == parseInt(trim(content))
         IN  IF \/ move.isNaN
                \/ move.value < 0
                \/ move.value >= Length(sent)
                \/ AsJSON(sent)[move.value] # null
             THEN [status |-> 400]
             ELSE [status |-> 200, move |-> move.value]

\* getAIMove (part_006:33-49): throws unless the response is ok, else
\* returns data.move.
getAIMove(response) ==
    IF response.status = 200
    THEN [threw |-> FALSE, move |-> response.move]
    ELSE [threw |-> TRUE, move |-> -1]

\* One oracle turn on the board of the request: the endpoint answers, getAIMove
\* returns or throws, and the page puts 'O' on the move returned
\* (part_004:145-157).
AskOracle(content, fault) ==
    /\ edits < MaxEdits
    /\ edits' = edits + 1
    /\ moveText' = trim(content)
    /\ routeResponse' = IF fault = "network" THEN NoResponse
                        ELSE RoutePOST(board, content, fault)
    /\ LET aiMove == getAIMove(routeResponse')
       IN  /\ board' = IF aiMove.threw THEN board ELSE Place(board, aiMove.move, "O")
           /\ lastOp' = Op("askOracle", aiMove.move, 0)
    /\ UNCHANGED <<size, loggedIn, currentPlayer, gameStatus, isAiThinking,
                   winningCombination, calls, game, failures, moves, placed, reported,
                   mark, winner, sinkVars>>

\* The oracle answers some text, or a fault keeps its answer from being read.
AsksOracle ==
    \/ \E content \in OracleTexts : AskOracle(content, "none")
    \/ \E fault \in OracleFaults \ {"none"} : AskOracle(<<>>, fault)

\* The boards of the requests: empty, or with one line of one mark on it.
InitRoute ==
    /\ size \in Sizes
    /\ \E line \in LinesOf(size) \cup {NoLine}, p \in {"X", "O"} :
          board = [i \in Cells(size) |-> IF i \in LineCells(line) THEN p ELSE null]
    /\ loggedIn = TRUE
    /\ currentPlayer = "X"
    /\ gameStatus = "playing"
    /\ isAiThinking = FALSE
    /\ winningCombination = NoLine
    /\ calls = <<>>
    /\ game = 0
    /\ failures = 0
    /\ moves = 0
    /\ placed = 0
    /\ reported = <<>>
    /\ lastOp = Op("mount", -1, 0)
    /\ mark = "X"
    /\ winner = NoLine
    /\ edits = 0
    /\ ServersIdle

NextRoute == AsksOracle

SpecRoute == InitRoute /\ [][NextRoute]_vars

(***************************************************************************)
(* The stats sink, POST /api/game/stats (part_003:28-82), on any request   *)
(* body.  A field that is absent, empty or zero is falsy to the handler's  *)
(* test and is written here as "" or 0.                                    *)
(***************************************************************************)
\* The request bodies: every field one of a few values, at most one of them
\* falsy; a boardSize of 6 and the id "guest" do not pass the schema of a
\* game record.
StatsRequests ==
    {data \in [userId : UserIds \cup {""},
               result : {"won", "lost", "draw", ""},
               duration : 0 .. 2,
               boardSize : {0, 3, 6},
               difficulty : {"easy", ""}] :
        Cardinality({f \in {"userId", "result", "difficulty"} : data[f] = ""}
                    \cup {f \in {"duration", "boardSize"} : data[f] = 0}) <= 1}

\* Where the database can fail the handler: connecting, saving the record,
\* updating the user.
SinkFaults == {"none", "connect", "save", "update"}

\* if (!userId || !result || !duration || !boardSize || !difficulty)
\* (part_003:34).
MissingField(data) ==
    \/ data.userId = ""
    \/ data.result = ""
    \/ data.duration = 0
    \/ data.boardSize = 0
    \/ data.difficulty = ""

\* The validation save() runs with the schema (GameStats.ts:22-50).
PassesSchema(data) ==
    /\ data.userId \in ObjectIds
    /\ data.result \in {"won", "lost", "draw"}
    /\ data.boardSize \in {3, 4, 5}
    /\ data.difficulty \in {"easy", "medium", "hard"}

\* The $inc of part_003:54-63.
Increment(stats, data) ==
    [gamesPlayed |-> stats.gamesPlayed + 1,
     timePlayed |-> stats.timePlayed + data.duration,
     gamesWon |-> stats.gamesWon + (IF data.result = "won" THEN 1 ELSE 0)]

\* The game record save() stores (part_003:43-51): the fields of the request
\* and timestamp: new Date(), written here as the record's place in the store.
StoredRecord(data) ==
    [userId |-> data.userId, result |-> data.result, duration |-> data.duration,
     boardSize |-> data.boardSize, difficulty |-> data.difficulty,
     timestamp |-> Len(records) + 1]

\* The handler, start to end.
StatsPOST(data, fault) ==
    /\ statsRequest' = data
    /\ lastOp' = Op("statsPOST", -1, 0)
    /\ IF fault = "connect"
       THEN /\ statsResponse' = [status |-> 500]
            /\ UNCHANGED <<users, records>>
       ELSE IF MissingField(data)
       THEN /\ statsResponse' = [status |-> 400]
            /\ UNCHANGED <<users, records>>
       ELSE IF fault = "save" \/ ~PassesSchema(data)
       THEN /\ statsResponse' = [status |-> 500]
            /\ UNCHANGED <<users, records>>
       ELSE /\ records' = Append(records, StoredRecord(data))
            /\ IF fault = "update"
               THEN /\ statsResponse' = [status |-> 500]
                    /\ UNCHANGED users
               ELSE IF data.userId \in DOMAIN users
               THEN /\ users' = [users EXCEPT ![data.userId] = Increment(@, data)]
                    /\ statsResponse' = [status |-> 200, stats |-> users'[data.userId]]
               ELSE /\ statsResponse' = [status |-> 200]
                    /\ UNCHANGED users
    /\ UNCHANGED <<size, loggedIn, pageVars, calls, game, failures, moves, placed,
                   reported, mark, winner, edits, routeVars>>

Posts ==
    /\ Len(records) < MaxRecords
    /\ \E data \in StatsRequests, fault \in SinkFaults : StatsPOST(data, fault)

NextStats == Posts

SpecStats == InitUser /\ [][NextStats]_vars

(***************************************************************************)
(* The stats retrieval, GET /api/game/stats?userId=... (part_003:84-125),  *)
(* after POSTs that stored up to MaxRecent game records.                   *)
(***************************************************************************)
\* Where the database can fail the retrieval: connecting, querying.
GetFaults == {"none", "connect", "find"}

\* The records of a user, most recent first: find({ userId }).sort({
\* timestamp: -1 }) (part_003:108-109).
RECURSIVE NewestFirst(_, _)
NewestFirst(store, userId) ==
    IF store = <<>> THEN <<>>
    ELSE LET last == store[Len(store)]
             older == NewestFirst(SubSeq(store, 1, Len(store) - 1), userId)
         IN  IF last.userId = userId THEN <<last>> \o older ELSE older

\* .limit(5) (part_003:110).
Limit(s, n) == SubSeq(s, 1, IF Len(s) < n THEN Len(s) ELSE n)

\* The handler, start to end: 400 without a userId; findById casts the id to
\* an ObjectId and throws for a string that is none (500); 404 for an id of no
\* account; else the user's stats and recent games.
StatsGET(userId, fault) ==
    /\ statsRequest' = [userId |-> userId, fault |-> fault]
    /\ lastOp' = Op("statsGET", -1, 0)
    /\ statsResponse' =
          IF fault = "connect" THEN [status |-> 500]
          ELSE IF userId = "" THEN [status |-> 400]
          ELSE IF userId \notin ObjectIds \/ fault = "find" THEN [status |-> 500]
          ELSE IF userId \notin DOMAIN users THEN [status |-> 404]
          ELSE [status |-> 200, stats |-> users[userId],
                recentGames |-> Limit(NewestFirst(records, userId), 5)]
    /\ UNCHANGED <<size, loggedIn, pageVars, calls, game, failures, moves, placed,
                   reported, mark, winner, edits, routeVars, users, records>>

\* The games reported here: of either id, won or drawn.
RecentRequests ==
    [userId : ObjectIds, result : {"won", "draw"}, duration : {1}, boardSize : {3},
     difficulty : {"easy"}]

Reports ==
    /\ Len(records) < MaxRecent
    /\ \E data \in RecentRequests : StatsPOST(data, "none")

Gets == \E userId \in UserIds \cup {""}, fault \in GetFaults : StatsGET(userId, fault)

NextRecent == Reports \/ Gets

SpecRecent == InitUser /\ [][NextRecent]_vars

(***************************************************************************)
(* Vocabulary of the properties.  The lines of a board are described here  *)
(* by the row and the column of each cell, not by the index arithmetic of  *)
(* checkWinner.                                                            *)
(***************************************************************************)
Terminal == {"won", "lost", "draw"}

RowOf(n, i) == i \div n
ColOf(n, i) == i % n

GridLines(n) ==
    {{i \in Cells(n) : RowOf(n, i) = r} : r \in 0 .. (n - 1)}
        \cup {{i \in Cells(n) : ColOf(n, i) = c} : c \in 0 .. (n - 1)}
        \cup {{i \in Cells(n) : RowOf(n, i) = ColOf(n, i)},
              {i \in Cells(n) : RowOf(n, i) + ColOf(n, i) = n - 1}}

CompleteLines(n, b, p) == {L \in GridLines(n) : \A i \in L : b[i] = p}

HasLine(b, p) == CompleteLines(size, b, p) # {}

NoEmptyCell(b) == \A i \in DOMAIN b : b[i] # null

OracleRequests(c) == Cardinality({k \in DOMAIN c : c[k].pc = "getAIMove"})

(***************************************************************************)
(* Properties.                                                             *)
(***************************************************************************)

\* C1: the answer (success or failure) of an oracle request issued before the
\* last reset changes nothing in the new game: board, gameStatus,
\* currentPlayer, winningCombination and isAiThinking stay as they are, and no
\* stats report is sent.
C1_StaleAnswerDiscarded ==
    [][(lastOp'.op \in {"aiMove", "aiFailed"} /\ lastOp'.from < game)
          => UNCHANGED <<pageVars, reported>>]_vars

\* C2: at most one request to the move oracle is outstanding.
C2_OneOracleRequest == OracleRequests(calls) <= 1

\* C3: while an oracle request is outstanding, every handleMove call returns
\* without changing any state: no local mark is placed.
C3_NoMoveWhileRequestPending ==
    [][(lastOp'.op = "handleMove" /\ OracleRequests(calls) > 0)
          => UNCHANGED <<pageVars, calls, reported>>]_vars

\* C4: within one game instance a terminal gameStatus never changes again.
C4_TerminalIsFinal ==
    [][(gameStatus \in Terminal /\ game' = game) => gameStatus' = gameStatus]_vars

\* C5: for a logged-in user the stats sink has been called, in the current game
\* instance, never while the status is 'playing' and exactly once, with the
\* status as result, when it is terminal.
C5_OneReportPerGame ==
    loggedIn =>
        /\ gameStatus = "playing" => reported = <<>>
        /\ gameStatus \in Terminal => reported = <<gameStatus>>

\* C6: checkWinner(board, mark) returns a line if and only if the mark holds
\* all N cells of some row, column or diagonal; the line has N distinct
\* indices within [0, N*N), each holding the mark, which are the cells of one
\* such row, column or diagonal ([3,6,9,12] when it is the 4x4 anti-diagonal
\* alone); otherwise it returns null.
C6_CheckWinnerFindsLines ==
    lastOp.op = "checkWinner" =>
        /\ (winner # NoLine) <=> (CompleteLines(size, board, mark) # {})
        /\ winner # NoLine =>
              /\ Len(winner) = size
              /\ Cardinality(LineCells(winner)) = size
              /\ \A k \in 1 .. Len(winner) :
                    winner[k] \in Cells(size) /\ board[winner[k]] = mark
              /\ LineCells(winner) \in CompleteLines(size, board, mark)
        /\ (size = 4 /\ CompleteLines(size, board, mark) = {{3, 6, 9, 12}})
              => winner = <<3, 6, 9, 12>>

C6_Witness ==
    lastOp.op = "checkWinner" /\ size = 4 /\ winner = <<3, 6, 9, 12>>

\* C7: a handleMove(index) call made when gameStatus is not 'playing', or when
\* board[index] is taken, or when an oracle move is pending, changes no state
\* variable and sends neither an oracle request nor a stats report.
C7_RejectedCallChangesNothing ==
    [][(/\ lastOp'.op = "handleMove"
        /\ \/ gameStatus # "playing"
           \/ isAiThinking
           \/ (lastOp'.index \in DOMAIN board /\ board[lastOp'.index] \in {"X", "O"}))
          => UNCHANGED <<pageVars, calls, reported>>]_vars

C7_Witness ==
    /\ lastOp.op = "handleMove"
    /\ isAiThinking
    /\ gameStatus = "playing"
    /\ lastOp.index \in DOMAIN board
    /\ board[lastOp.index] = null

C9_LocalMoveEndsGame ==
    [][(/\ lastOp'.op = "handleMove"
        /\ lastOp'.index \in DOMAIN board
        /\ board[lastOp'.index] = null
        /\ gameStatus = "playing"
        /\ ~isAiThinking)
          => LET newBoard == [board EXCEPT ![lastOp'.index] = "X"]
             IN  /\ HasLine(newBoard, "X") =>
                       /\ gameStatus' = "won"
                       /\ winningCombination' = checkWinner(newBoard, "X")
                       /\ LineCells(winningCombination')
                              \in CompleteLines(size, newBoard, "X")
                       /\ OracleRequests(calls') = OracleRequests(calls)
                 /\ (~HasLine(newBoard, "X") /\ NoEmptyCell(newBoard)) =>
                       /\ gameStatus' = "draw"
                       /\ OracleRequests(calls') = OracleRequests(calls)]_vars

C9_Witness ==
    /\ lastOp.op = "handleMove"
    /\ gameStatus = "won"
    /\ winningCombination = <<0, 4, 8>>
    /\ OracleRequests(calls) = 0

\* C10: when the oracle's answer is applied, exactly the returned cell receives
\* 'O'; then gameStatus becomes 'lost' with O's line as winningCombination if
\* O has a line, 'draw' if the board is full, and otherwise stays 'playing'
\* with local moves accepted again (isAiThinking false, currentPlayer 'X').
C10_OracleMoveApplied ==
    [][lastOp'.op = "aiMove"
          => /\ lastOp'.index \in DOMAIN board
             /\ board[lastOp'.index] = null
             /\ board' = [board EXCEPT ![lastOp'.index] = "O"]
             /\ HasLine(board', "O") =>
                   /\ gameStatus' = "lost"
                   /\ LineCells(winningCombination') \in CompleteLines(size, board', "O")
             /\ (~HasLine(board', "O") /\ NoEmptyCell(board')) => gameStatus' = "draw"
             /\ (~HasLine(board', "O") /\ ~NoEmptyCell(board')) =>
                   /\ gameStatus' = "playing"
                   /\ ~isAiThinking'
                   /\ currentPlayer' = "X"]_vars

C12_WinBeforeDraw ==
    [][/\ (/\ lastOp'.op = "handleMove"
           /\ board' # board
           /\ HasLine(board', "X")
           /\ NoEmptyCell(board')) => gameStatus' = "won"
       /\ (/\ lastOp'.op = "aiMove"
           /\ HasLine(board', "O")
           /\ NoEmptyCell(board')) => gameStatus' = "lost"]_vars

C12_Witness ==
    /\ lastOp.op = "aiMove"
    /\ HasLine(board, "O")
    /\ NoEmptyCell(board)
    /\ gameStatus = "lost"

\* C13: whenever gameStatus is 'draw' the board has no empty cell and neither
\* X nor O has a complete row, column or diagonal.
C13_DrawMeansFullNoLine ==
    gameStatus = "draw" =>
        NoEmptyCell(board) /\ ~HasLine(board, "X") /\ ~HasLine(board, "O")

\* C14: every change of the board other than resetGame changes exactly one
\* cell, from empty to a mark.
C14_OnePlacementPerChange ==
    [][(board' # board /\ lastOp'.op # "resetGame")
          => /\ DOMAIN board' = DOMAIN board
             /\ \E i \in DOMAIN board :
                   /\ board[i] = null
                   /\ board'[i] \in {"X", "O"}
                   /\ \A j \in DOMAIN board \ {i} : board'[j] = board[j]]_vars

\* C16: a failed stats report leaves the game as it was finalized: board,
\* gameStatus, currentPlayer and winningCombination are unchanged, nothing is
\* reported again, and the invocation that awaited it returns.
C16_StatsFailureIgnored ==
    [][lastOp'.op = "statsFailed"
          => /\ UNCHANGED <<board, gameStatus, currentPlayer, winningCombination,
                            reported>>
             /\ Len(calls') = Len(calls) - 1
             /\ OracleRequests(calls') = OracleRequests(calls)]_vars

C16_Witness ==
    lastOp.op = "statsFailed" /\ gameStatus \in Terminal /\ calls = <<>>

\* C18: resetGame, from any state, leaves size*size empty cells, gameStatus
\* 'playing', currentPlayer 'X', no winningCombination and isAiThinking false.
C18_ResetGivesFreshGame ==
    [][lastOp'.op = "resetGame"
          => /\ DOMAIN board' = 0 .. (size * size - 1)
             /\ \A i \in DOMAIN board' : board'[i] = null
             /\ gameStatus' = "playing"
             /\ currentPlayer' = "X"
             /\ winningCombination' = <<>>
             /\ ~isAiThinking']_vars

C18_Witness ==
    /\ lastOp.op = "resetGame"
    /\ OracleRequests(calls) = 1
    /\ ~isAiThinking
    /\ \A i \in DOMAIN board : board[i] = null

\* The occupied cells of a board.
OccupiedCells(b) == {i \in DOMAIN b : b[i] # null}

\* C19: the previousMoves of every oracle request has one entry per occupied
\* cell of the board sent with it, each with the cell's position and mark, and
\* ends with the local move that triggered the request (the last move played).
C19_HistoryCoversSentBoard ==
    \A k \in Pending("getAIMove") :
        LET sent == calls[k].newBoard
            history == calls[k].previousMoves
        IN  /\ Len(history) = Cardinality(OccupiedCells(sent))
            /\ \A i \in OccupiedCells(sent) :
                  \E n \in DOMAIN history :
                      history[n] = [position |-> i, player |-> sent[i]]
            /\ lastOp.op = "handleMove" =>
                  /\ history # <<>>
                  /\ history[Len(history)] = [position |-> lastOp.index, player |-> "X"]

\* C17: whatever the 'size' parameter of the URL, size is 3, 4 or 5 and the
\* board has exactly size*size cells.
C17_SizeIsThreeFourFive ==
    size \in {3, 4, 5} /\ Cardinality(DOMAIN board) = size * size

C20_StatsAnswerOrError ==
    [][lastOp'.op = "statsPOST" =>
          /\ \/ /\ statsResponse'.status = 200
                /\ statsRequest'.userId \in DOMAIN users'
                /\ "stats" \in DOMAIN statsResponse'
                /\ statsResponse'.stats = users'[statsRequest'.userId]
             \/ statsResponse' \in {[status |-> 400], [status |-> 404], [status |-> 500]}
          /\ statsRequest'.userId \notin DOMAIN users =>
                /\ statsResponse'.status \in {400, 404, 500}
                /\ records' = records]_vars

\* C24: in every reachable state the status agrees with the board: 'won'
\* means X has a complete line and winningCombination is one, 'lost' the same
\* for O, and 'playing' means neither mark has a complete line and
\* winningCombination is empty.
C24_StatusAgreesWithBoard ==
    /\ gameStatus = "won" =>
          LineCells(winningCombination) \in CompleteLines(size, board, "X")
    /\ gameStatus = "lost" =>
          LineCells(winningCombination) \in CompleteLines(size, board, "O")
    /\ gameStatus = "playing" =>
          /\ ~HasLine(board, "X")
          /\ ~HasLine(board, "O")
          /\ winningCombination = <<>>

\* C25: whenever the page accepts a local move (gameStatus 'playing' and
\* isAiThinking false), currentPlayer is 'X'.
C25_LocalTurnIsX ==
    (gameStatus = "playing" /\ ~isAiThinking) => currentPlayer = "X"

\* C26: whenever gameStatus is terminal, isAiThinking is false: the pending
\* flag is not held while the stats report is awaited.
C26_TerminalNotThinking ==
    gameStatus \in Terminal => ~isAiThinking

\* The place of a line of the grid in the order rows top to bottom, columns
\* left to right, main diagonal, anti-diagonal.
LineRank(n, L) ==
    IF \E r \in 0 .. (n - 1) : L = {i \in Cells(n) : RowOf(n, i) = r}
    THEN CHOOSE r \in 0 .. (n - 1) : L = {i \in Cells(n) : RowOf(n, i) = r}
    ELSE IF \E c \in 0 .. (n - 1) : L = {i \in Cells(n) : ColOf(n, i) = c}
    THEN n + (CHOOSE c \in 0 .. (n - 1) : L = {i \in Cells(n) : ColOf(n, i) = c})
    ELSE IF L = {i \in Cells(n) : RowOf(n, i) = ColOf(n, i)} THEN 2 * n
    ELSE 2 * n + 1

\* C23: when the mark has several complete lines on the board, checkWinner
\* returns the first of them in the order rows (top to bottom), columns (left
\* to right), main diagonal, anti-diagonal, its cells listed from the top.
C23_FirstLineInOrder ==
    (lastOp.op = "checkWinner" /\ winner # NoLine) =>
        /\ LineCells(winner) \in CompleteLines(size, board, mark)
        /\ \A L \in CompleteLines(size, board, mark) :
              LineRank(size, LineCells(winner)) <= LineRank(size, L)
        /\ \A k \in 1 .. (Len(winner) - 1) : winner[k] < winner[k + 1]

C23_Witness ==
    /\ lastOp.op = "checkWinner"
    /\ size = 3
    /\ CompleteLines(size, board, mark) = {{2, 5, 8}, {6, 7, 8}}
    /\ winner = <<6, 7, 8>>

\* The stored records of a user, and those of them that were won.
RecordsOf(u) == {k \in DOMAIN records : records[k].userId = u}

WonRecordsOf(u) == {k \in RecordsOf(u) : records[k].result = "won"}

\* C21: each successful POST to the stats sink adds exactly one game record,
\* with the fields of the request, and changes the aggregates of the user of
\* the request, and no other, by gamesPlayed + 1, timePlayed + duration and
\* gamesWon + 1 if the result is 'won', + 0 if not; a request with a missing
\* field is answered 400 and changes neither records nor aggregates.
C21_PostCountsOneGame ==
    [][lastOp'.op = "statsPOST" =>
          LET data == statsRequest'
              u == data.userId
          IN  /\ statsResponse'.status = 200 =>
                    /\ Len(records') = Len(records) + 1
                    /\ SubSeq(records', 1, Len(records)) = records
                    /\ \A f \in DOMAIN data : records'[Len(records')][f] = data[f]
                    /\ u \in DOMAIN users
                    /\ users'[u].gamesPlayed = users[u].gamesPlayed + 1
                    /\ users'[u].timePlayed = users[u].timePlayed + data.duration
                    /\ users'[u].gamesWon =
                          users[u].gamesWon + (IF data.result = "won" THEN 1 ELSE 0)
                    /\ \A v \in DOMAIN users \ {u} : users'[v] = users[v]
              /\ (\/ u = "" \/ data.result = "" \/ data.difficulty = ""
                  \/ data.duration = 0 \/ data.boardSize = 0) =>
                    /\ statsResponse' = [status |-> 400]
                    /\ UNCHANGED <<records, users>>]_vars

\* C22: without a database failure, GET for the id of an account answers with
\* the account's aggregate stats and the min(5, k) most recent of its k game
\* records, most recent first, and no record of another user; a missing
\* userId gives 400 and an id of no account gives 404.
C22_GetStatsAndRecentGames ==
    (lastOp.op = "statsGET" /\ statsRequest.fault = "none") =>
        LET u == statsRequest.userId
            k == Cardinality(RecordsOf(u))
        IN  /\ u = "" => statsResponse = [status |-> 400]
            /\ (u # "" /\ u \notin DOMAIN users) => statsResponse = [status |-> 404]
            /\ u \in DOMAIN users =>
                  /\ statsResponse.status = 200
                  /\ statsResponse.stats = users[u]
                  /\ Len(statsResponse.recentGames) = IF k < 5 THEN k ELSE 5
                  /\ \A n \in DOMAIN statsResponse.recentGames :
                        LET g == statsResponse.recentGames[n]
                        IN  /\ g.userId = u
                            /\ g \in {records[j] : j \in RecordsOf(u)}
                            /\ Cardinality({j \in RecordsOf(u) :
                                              records[j].timestamp > g.timestamp}) = n - 1

\* C30: after any sequence of stats POSTs, failed ones included, every
\* account has gamesWon <= gamesPlayed, gamesPlayed equal to the number of its
\* stored game records and gamesWon equal to the number of those that were won.
C30_AggregatesMatchRecords ==
    \A u \in DOMAIN users :
        /\ users[u].gamesWon <= users[u].gamesPlayed
        /\ users[u].gamesPlayed = Cardinality(RecordsOf(u))
        /\ users[u].gamesWon = Cardinality(WonRecordsOf(u))

\* C29: a full board with no handleMove invocation suspended has a terminal
\* status, a game instance gets at most size * size marks, and no oracle
\* request carries a full board.
C29_FullBoardEndsGame ==
    /\ (NoEmptyCell(board) /\ calls = <<>>) => gameStatus \in Terminal
    /\ placed <= size * size
    /\ \A k \in Pending("getAIMove") : ~NoEmptyCell(calls[k].newBoard)

(***************************************************************************)
(* The page with oracle requests that fail in the first game instance      *)
(* only, and up to MaxLapseMoves local moves over both instances.          *)
(***************************************************************************)
MaxLapseMoves == 3

ClickLapse ==
    \E index \in DOMAIN board :
        Enabled(index) /\ moves < MaxLapseMoves /\ handleMove(index)

FailsEarly == game = 0 /\ OracleFails

NextLapse == ClickLapse \/ OracleAnswers \/ FailsEarly \/ StatsAnswers \/ PlayAgain

SpecLapse == InitUser /\ [][NextLapse]_vars

\* The number of cells of b that hold v.
Marks(b, v) == Cardinality({i \in DOMAIN b : b[i] = v})

\* Under SpecLapse an oracle request has failed in the current game instance
\* exactly when one has failed and there was no reset.
FailedInGame == game = 0 /\ failures > 0

\* C28: the board never has fewer X marks than O marks, and while no oracle
\* request has failed in the current game instance it has as many X marks as
\* O marks or one more.
C28_TurnParity ==
    /\ Marks(board, "X") >= Marks(board, "O")
    /\ ~FailedInGame => Marks(board, "X") - Marks(board, "O") \in {0, 1}

(***************************************************************************)
(* The page with requests that settle: a pending oracle request is         *)
(* eventually answered or fails, a pending stats report eventually         *)
(* resolves or rejects.  Clicks and resets are the user's and may never    *)
(* come.                                                                   *)
(***************************************************************************)
SpecLive ==
    /\ Init
    /\ [][Next]_vars
    /\ WF_vars(OracleAnswers \/ OracleFails)
    /\ WF_vars(StatsAnswers)

\* C27: when the requests settle, a pending flag that a local move has set
\* is eventually cleared again, whichever way the oracle request ends.
C27_ThinkingEnds == isAiThinking ~> ~isAiThinking

\* The oracle's move has ended a game, the report of the result has settled
\* and the flag is clear.
C27_Witness ==
    /\ lastOp.op \in {"statsDone", "statsFailed"}
    /\ gameStatus = "lost"
    /\ calls = <<>>
    /\ ~isAiThinking

=============================================================================
